---- MODULE Spec2Model ----
(***************************************************************************)
(* Model of src/index.js: the Atomic registry (keys, files, check, run)    *)
(* and the three webpack hooks AtomicWebpackPlugin.apply binds to it,      *)
(* over a small file system the hooks read and write.                      *)
(*                                                                         *)
(* A path is the sequence of its segments: <<"ctx","src","components",     *)
(* "Button","index.tsx">> is /ctx/src/components/Button/index.tsx.  A text *)
(* is a sequence of chunks, each chunk a sequence of strings.              *)
(***************************************************************************)
EXTENDS Integers, Sequences, FiniteSets, TLC

\* ------------------------------------------------------------ bounds
\* At most this many entries named index.tsx exist below the base directory
\* at once.
MaxEntries == 2

\* A key handed to cleanKeys has at most this many segments below the base
\* directory, the file's name included.
MaxDepth == 4

\* A list handed to equalsIgnoreOrder has at most this many elements.
MaxLen == 3

\* ------------------------------------------------------- configuration
defaultOptions ==
  [ base              |-> <<"src", "components">>,
    output            |-> "index.ts",
    header            |-> <<"// @generated">>,
    regularExpression |-> "/\\.?\\/.+\\/index\\.tsx$/" ]

\* compiler.context, the absolute directory the hooks resolve against.
compilerContext == <<"ctx">>

\* The value of settings.context before the environment hook supplies it.
undefined == <<"undefined">>

\* The entries named index.tsx that may exist below the base directory,
\* relative to it.  A directory between one of them and the base directory
\* exists while an entry below it does.
Tree ==
  { <<"index.tsx">>, <<"Button", "index.tsx">>,
    <<"Card", "Button", "index.tsx">> }

\* The base directory as resolved once the context is known.
BasePath == compilerContext \o defaultOptions.base

OutputPath == BasePath \o <<defaultOptions.output>>

Paths == {BasePath \o r : r \in Tree}

Kinds == {"none", "file", "dir"}

\* What an entry of Paths may be created as: a file, and the one directly
\* in the base directory also a directory (a directory named index.tsx).
KindsAt(p) ==
  IF p = BasePath \o <<"index.tsx">> THEN {"file", "dir"} ELSE {"file"}

\* Entry names in lexicographic order.
NameOrder == <<"Button", "Card", "index.ts", "index.tsx">>

\* Content an output file has when something other than the plugin wrote it.
ForeignContent == << <<"// written by hand">> >>

VARIABLES
  baseKind,    \* what is at the base path, one of Kinds
  fs,          \* what is at each path of Paths, one of Kinds
  readable,    \* the base directory may be listed (its r permission bit)
  order,       \* the order in which the file system lists a directory
  outMode,     \* the output file: "none", "rw" (writable) or "ro"
  outContent,  \* the output file's text
  context,     \* Atomic.context
  keys,        \* Atomic.keys
  files,       \* Atomic.files, its keys in insertion order
  checkOutcome,\* what Atomic.check did in the handler that ran last
  cbKeys,      \* the keys Atomic.check handed to its callback
  runOutcome,  \* what Atomic.run did in it
  runCallback, \* times Atomic.run invoked its completion callback in it
  runReturned, \* what Atomic.run returned in it
  trace,       \* the handler's calls in order: "check", "run", "done" (the
               \* host's callback), "throw" (an exception reaches the host);
               \* empty after a step of the file system
  options,     \* the options the Atomic was constructed with
  checkCalls,  \* the file-system calls Atomic.check made in the handler that
               \* ran last: the keys it passed to accessSync, in order, and
               \* whether it listed the base directory
  call         \* a direct call of one function of the module: its name, its
               \* arguments, whether it has returned, and what it returned

vars == << baseKind, fs, readable, order, outMode, outContent, context, keys,
           files, checkOutcome, cbKeys, runOutcome, runCallback, runReturned,
           trace, options, checkCalls, call >>

atomicVars == << context, keys, files >>

\* ----------------------------------------------------------- helpers
Range(s) == {s[i] : i \in 1..Len(s)}

Reverse(s) == [i \in 1..Len(s) |-> s[Len(s) + 1 - i]]

IsPrefix(p, q) == Len(p) <= Len(q) /\ SubSeq(q, 1, Len(p)) = p

\* What is at a path: the output file is a plain file of the base directory.
Kind(p) ==
  IF p = BasePath THEN baseKind
  ELSE IF p = OutputPath THEN (IF outMode = "none" THEN "none" ELSE "file")
  ELSE IF p \in Paths THEN fs[p]
  ELSE IF \E q \in Paths : IsPrefix(BasePath, p) /\ IsPrefix(p, q)
                            /\ fs[q] # "none"
       THEN "dir"
  ELSE "none"

\* path.resolve(this.context, this.base)
resolvedBase(self) == self.context \o defaultOptions.base

\* path.resolve(this.context, this.base, this.output)
resolvedOutput(self) == resolvedBase(self) \o <<defaultOptions.output>>

\* fs.accessSync(p, F_OK) returns (does not throw).
accessSync(p) == Kind(p) # "none"

\* fs.readdirSync(directory) throws.
readdirThrows(directory) ==
  \/ Kind(directory) # "dir"
  \/ directory = BasePath /\ ~readable

\* fs.readdirSync(directory): the names of the entries, in the file
\* system's order.
readdirSync(directory) ==
  LET names == IF order = "asc" THEN NameOrder ELSE Reverse(NameOrder)
  IN  SelectSeq(names, LAMBDA n : Kind(directory \o <<n>>) # "none")

\* regularExpression.test(fullPath) for /\.?\/.+\/index\.tsx$/ : the path
\* ends in /index.tsx and at least one more segment precedes that.
regularExpressionTest(fullPath) ==
  /\ Len(fullPath) >= 2
  /\ fullPath[Len(fullPath)] = "index.tsx"

\* this.files[fullPath] = true
filesPut(obj, fullPath) ==
  IF fullPath \in Range(obj) THEN obj ELSE Append(obj, fullPath)

\* this.scanSubDirectories, set once by the constructor.
scanSubDirectories == TRUE

\* ------------------------------------------------------------ scanner
RECURSIVE readDirectory(_, _, _)
RECURSIVE forEachFile(_, _, _, _)

\* readDirectory(directory, scanSubDirectories, regularExpression) with
\* this.files = obj on entry: [threw, files], files being this.files when
\* it returns or throws.
readDirectory(directory, scanSub, obj) ==
  IF readdirThrows(directory)
  THEN [threw |-> TRUE, files |-> obj]
  ELSE forEachFile(readdirSync(directory), directory, scanSub, obj)

\* A forEach callback that goes into every directory, whatever the flag.
RECURSIVE forEachFileDescending(_, _, _, _)
forEachFileDescending(entries, directory, scanSub, obj) ==
  IF entries = <<>>
  THEN [threw |-> FALSE, files |-> obj]
  ELSE LET fullPath == directory \o <<Head(entries)>>
           one ==
             IF Kind(fullPath) = "dir"
             THEN readDirectory(fullPath, scanSub, obj)
             ELSE IF ~regularExpressionTest(fullPath)
                  THEN [threw |-> FALSE, files |-> obj]
                  ELSE [threw |-> FALSE, files |-> filesPut(obj, fullPath)]
       IN  IF one.threw
           THEN one
           ELSE forEachFileDescending(Tail(entries), directory, scanSub,
                                      one.files)

\* The forEach callback over the entries still to visit.
forEachFile(entries, directory, scanSub, obj) ==
  IF entries = <<>>
  THEN [threw |-> FALSE, files |-> obj]
  ELSE LET fullPath == directory \o <<Head(entries)>>
           one ==
             IF Kind(fullPath) = "dir"
             THEN IF scanSub
                  THEN readDirectory(fullPath, scanSub, obj)
                  ELSE [threw |-> FALSE, files |-> obj]
             ELSE IF ~regularExpressionTest(fullPath)
                  THEN [threw |-> FALSE, files |-> obj]
                  ELSE [threw |-> FALSE, files |-> filesPut(obj, fullPath)]
       IN  IF one.threw
           THEN one
           ELSE forEachFile(Tail(entries), directory, scanSub, one.files)

\* ------------------------------------------------- name/path derivation
Max(S) == CHOOSE m \in S : \A n \in S : n <= m

\* key.replace(/^.+\.?\/([^/]+)\/index\.tsx/, "$1"): the greedy match ends
\* at the last segment index.tsx that has a segment and a non-empty prefix
\* before it; the match is replaced by that segment, what follows is kept,
\* and a key without a match is returned as it is.
componentNameOf(key) ==
  LET at == {i \in 3..Len(key) : key[i] = "index.tsx"}
  IN  IF at = {} THEN key
      ELSE <<key[Max(at) - 1]>> \o SubSeq(key, Max(at) + 1, Len(key))

\* key.replace(/^.+\.?\/([^/]+\/[^/]+)\/index\.tsx/, "./$1")
fromOf(key) ==
  LET at == {i \in 4..Len(key) : key[i] = "index.tsx"}
  IN  IF at = {} THEN key
      ELSE <<".", key[Max(at) - 2], key[Max(at) - 1]>>
             \o SubSeq(key, Max(at) + 1, Len(key))

cleanKeys(ks) ==
  [i \in 1..Len(ks) |->
     [key |-> ks[i], componentName |-> componentNameOf(ks[i]),
      from |-> fromOf(ks[i])]]

\* ---------------------------------------------------------- comparison
Count(a, v) == Cardinality({i \in 1..Len(a) : a[i] = v})

\* A comparison of the lengths and of the sets of values only.
equalsAsSets(a, b) == Len(a) = Len(b) /\ Range(a) = Range(b)

equalsIgnoreOrder(a, b) ==
  IF Len(a) # Len(b) THEN FALSE
  ELSE \A v \in Range(a) \cup Range(b) : Count(a, v) = Count(b, v)

\* ------------------------------------------------------------ Atomic
\* No file-system call of Atomic.check: no handler has called it.
NoCalls == [tested |-> <<>>, rescanned |-> FALSE]

\* No function of the module is called directly.
NoCall == [fn |-> "none", args |-> <<>>, returned |-> FALSE, out |-> <<>>]

\* What a call of Atomic works on: the object's fields context, keys and
\* files, and content, the output file's text.
Self ==
  [context |-> context, keys |-> keys, files |-> files,
   content |-> outContent]

\* A getComponents that adds the paths it finds to the keys it has.
getComponentsAppending(self, directory) ==
  LET scan == readDirectory(directory, scanSubDirectories, <<>>)
  IN  IF scan.threw
      THEN [threw |-> TRUE, self |-> [self EXCEPT !.files = scan.files]]
      ELSE [threw |-> FALSE,
            self  |-> [self EXCEPT !.files = scan.files,
                                   !.keys = self.keys \o scan.files]]

\* getComponents(directory, scanSubDirectories, regularExpression):
\* this.files = {}, the scan, this.keys = Object.keys(this.files); a throw
\* of the scan leaves this.keys as it was.
getComponents(self, directory) ==
  LET scan == readDirectory(directory, scanSubDirectories, <<>>)
  IN  IF scan.threw
      THEN [threw |-> TRUE, self |-> [self EXCEPT !.files = scan.files]]
      ELSE [threw |-> FALSE,
            self  |-> [self EXCEPT !.files = scan.files,
                                   !.keys = scan.files]]

\* A check that rescans with getComponents, which stores the keys it finds.
checkStoringKeys(self) ==
  LET ck      == cleanKeys(self.keys)
      missing == {i \in 1..Len(ck) : ~accessSync(ck[i].key)}
      g       == getComponents(self, resolvedBase(self))
      tested  == [i \in 1..Len(ck) |-> ck[i].key]
  IN  IF missing # {}
      THEN [self |-> self, outcome |-> "changed", cbKeys |-> self.keys,
            calls |-> [tested |-> tested, rescanned |-> FALSE]]
      ELSE IF g.threw
      THEN [self |-> g.self, outcome |-> "threw", cbKeys |-> <<>>,
            calls |-> [tested |-> tested, rescanned |-> TRUE]]
      ELSE [self    |-> g.self,
            outcome |-> IF equalsIgnoreOrder(g.self.files, g.self.keys)
                        THEN "unchanged" ELSE "changed",
            cbKeys  |-> g.self.keys,
            calls   |-> [tested |-> tested, rescanned |-> TRUE]]

\* A check whose existence tests stop at the first key that is missing.
checkStoppingAtFirstMissing(self) ==
  LET ck      == cleanKeys(self.keys)
      missing == {i \in 1..Len(ck) : ~accessSync(ck[i].key)}
      last    == IF missing = {} THEN Len(ck)
                 ELSE CHOOSE i \in missing : \A j \in missing : i <= j
      tested  == [i \in 1..last |-> ck[i].key]
      scan    == readDirectory(resolvedBase(self), scanSubDirectories, <<>>)
  IN  IF missing # {}
      THEN [self |-> self, outcome |-> "changed", cbKeys |-> self.keys,
            calls |-> [tested |-> tested, rescanned |-> FALSE]]
      ELSE IF scan.threw
      THEN [self    |-> [self EXCEPT !.files = scan.files],
            outcome |-> "threw", cbKeys |-> <<>>,
            calls   |-> [tested |-> tested, rescanned |-> TRUE]]
      ELSE [self    |-> [self EXCEPT !.files = scan.files],
            outcome |-> IF equalsIgnoreOrder(scan.files, self.keys)
                        THEN "unchanged" ELSE "changed",
            cbKeys  |-> self.keys,
            calls   |-> [tested |-> tested, rescanned |-> TRUE]]

\* Atomic.check up to the call of its callback: what it leaves, the outcome
\* ("changed", "unchanged", or "threw" when readdirSync throws and no
\* callback is made) and the keys handed to the callback.
check(self) ==
  LET ck      == cleanKeys(self.keys)
      tested  == [i \in 1..Len(ck) |-> ck[i].key]
      missing == {i \in 1..Len(ck) : ~accessSync(ck[i].key)}
      scan    == readDirectory(resolvedBase(self), scanSubDirectories, <<>>)
  IN  IF missing # {}
      THEN [self |-> self, outcome |-> "changed", cbKeys |-> self.keys,
            calls |-> [tested |-> tested, rescanned |-> FALSE]]
      ELSE IF scan.threw
      THEN [self    |-> [self EXCEPT !.files = scan.files],
            outcome |-> "threw", cbKeys |-> <<>>,
            calls   |-> [tested |-> tested, rescanned |-> TRUE]]
      ELSE [self    |-> [self EXCEPT !.files = scan.files],
            outcome |-> IF equalsIgnoreOrder(scan.files, self.keys)
                        THEN "unchanged" ELSE "changed",
            cbKeys  |-> self.keys,
            calls   |-> [tested |-> tested, rescanned |-> TRUE]]

\* `export { default as ${k.componentName} } from '${k.from}'\n`
exportLine(k) ==
  <<"export { default as ">> \o k.componentName \o <<" } from '">>
    \o k.from \o <<"'\n">>

RECURSIVE joinWith(_, _)
joinWith(lines, sep) ==
  IF Len(lines) <= 1 THEN lines
  ELSE <<Head(lines), sep>> \o joinWith(Tail(lines), sep)

\* The lines joined by contentArray.join(), whose separator is a comma.
contentOfJoinedByComma(ks) ==
  <<defaultOptions.header>>
    \o joinWith([i \in 1..Len(ks) |-> exportLine(cleanKeys(ks)[i])], <<",">>)

\* `${this.header}${contentArray.join("")}`
contentOf(ks) ==
  <<defaultOptions.header>>
    \o [i \in 1..Len(ks) |-> exportLine(cleanKeys(ks)[i])]

\* fs.writeFileSync(resolvedOutput, content) throws: the file exists (run
\* has tested that) and is not writable.
writeFileThrows == outMode # "rw"

\* fs.appendFileSync in the place of fs.writeFileSync.
appendFileSync(old, content) == old \o content

\* fs.writeFileSync(resolvedOutput, content): the file's text afterwards.
writeFileSync(old, content) == content

\* A run that scans before it tests the base and output paths.
runScanningFirst(self) ==
  LET g == getComponents(self, resolvedBase(self))
  IN  IF g.threw
      THEN [self |-> g.self, outcome |-> "threw",
            callback |-> 0, returned |-> "none"]
      ELSE IF ~accessSync(resolvedBase(self))
      THEN [self |-> g.self, outcome |-> "noBase",
            callback |-> 0, returned |-> "empty"]
      ELSE IF ~accessSync(resolvedOutput(self))
      THEN [self |-> g.self, outcome |-> "noOutput",
            callback |-> 0, returned |-> "empty"]
      ELSE IF writeFileThrows
      THEN [self |-> g.self, outcome |-> "writeFailed",
            callback |-> 0, returned |-> "empty"]
      ELSE [self |-> [g.self EXCEPT !.content =
                        writeFileSync(g.self.content, contentOf(g.self.keys))],
            outcome |-> "ok", callback |-> 1, returned |-> "keys"]

\* A run that puts the old keys back when the write fails.
runRollingBack(self) ==
  LET g == getComponents(self, resolvedBase(self))
  IN  IF ~accessSync(resolvedBase(self))
      THEN [self |-> self, outcome |-> "noBase",
            callback |-> 0, returned |-> "empty"]
      ELSE IF ~accessSync(resolvedOutput(self))
      THEN [self |-> self, outcome |-> "noOutput",
            callback |-> 0, returned |-> "empty"]
      ELSE IF g.threw
      THEN [self |-> g.self, outcome |-> "threw",
            callback |-> 0, returned |-> "none"]
      ELSE IF writeFileThrows
      THEN [self |-> [g.self EXCEPT !.keys = self.keys],
            outcome |-> "writeFailed", callback |-> 0, returned |-> "empty"]
      ELSE [self |-> [g.self EXCEPT !.content =
                        writeFileSync(g.self.content, contentOf(g.self.keys))],
            outcome |-> "ok", callback |-> 1, returned |-> "keys"]

\* A run that calls the completion callback after the try/catch around the
\* write, so also when the write failed.
runCallingBackAfterCatch(self) ==
  LET g == getComponents(self, resolvedBase(self))
  IN  IF ~accessSync(resolvedBase(self))
      THEN [self |-> self, outcome |-> "noBase",
            callback |-> 0, returned |-> "empty"]
      ELSE IF ~accessSync(resolvedOutput(self))
      THEN [self |-> self, outcome |-> "noOutput",
            callback |-> 0, returned |-> "empty"]
      ELSE IF g.threw
      THEN [self |-> g.self, outcome |-> "threw",
            callback |-> 0, returned |-> "none"]
      ELSE IF writeFileThrows
      THEN [self |-> g.self, outcome |-> "writeFailed",
            callback |-> 1, returned |-> "keys"]
      ELSE [self |-> [g.self EXCEPT !.content =
                        writeFileSync(g.self.content, contentOf(g.self.keys))],
            outcome |-> "ok", callback |-> 1, returned |-> "keys"]

\* Atomic.run: what it leaves, the outcome, the number of calls of the
\* completion callback and what is returned ("empty": {}, "keys": {keys,
\* instance}, "none": it threw).
run(self) ==
  LET g == getComponents(self, resolvedBase(self))
  IN  IF ~accessSync(resolvedBase(self))
      THEN [self |-> self, outcome |-> "noBase",
            callback |-> 0, returned |-> "empty"]
      ELSE IF ~accessSync(resolvedOutput(self))
      THEN [self |-> self, outcome |-> "noOutput",
            callback |-> 0, returned |-> "empty"]
      ELSE IF g.threw
      THEN [self |-> g.self, outcome |-> "threw",
            callback |-> 0, returned |-> "none"]
      ELSE IF writeFileThrows
      THEN [self |-> g.self, outcome |-> "writeFailed",
            callback |-> 0, returned |-> "empty"]
      ELSE [self |-> [g.self EXCEPT !.content =
                        writeFileSync(g.self.content, contentOf(g.self.keys))],
            outcome |-> "ok", callback |-> 1, returned |-> "keys"]

\* ------------------------------------------------------------- hooks
\* compiler.hooks.environment: setOptions({logger, context}), then run.
EnvironmentHook ==
  \E r \in {run([Self EXCEPT !.context = compilerContext])} :
    /\ context' = r.self.context
    /\ keys' = r.self.keys
    /\ files' = r.self.files
    /\ outContent' = r.self.content
    /\ checkOutcome' = "none"
    /\ cbKeys' = <<>>
    /\ runOutcome' = r.outcome
    /\ runCallback' = r.callback
    /\ runReturned' = r.returned
    /\ trace' = IF r.outcome = "threw" THEN <<"run", "throw">> ELSE <<"run">>
    /\ checkCalls' = NoCalls
    /\ UNCHANGED << baseKind, fs, readable, order, outMode, options, call >>

\* The handler of compiler.hooks.run and of compiler.hooks.watchRun: check,
\* in whose callback run is called when changes were found and then the
\* host's callback.  webpack calls it after the environment hook.
checkThenRun ==
  /\ context # undefined
  /\ \E c \in {check(Self)} :
       IF c.outcome # "changed"
       THEN /\ context' = c.self.context
            /\ keys' = c.self.keys
            /\ files' = c.self.files
            /\ outContent' = c.self.content
            /\ checkOutcome' = c.outcome
            /\ cbKeys' = c.cbKeys
            /\ runOutcome' = "none"
            /\ runCallback' = 0
            /\ runReturned' = "none"
            /\ trace' = IF c.outcome = "threw" THEN <<"check", "throw">>
                        ELSE <<"check", "done">>
            /\ checkCalls' = c.calls
            /\ UNCHANGED << baseKind, fs, readable, order, outMode,
                            options, call >>
       ELSE \E r \in {run(c.self)} :
            /\ context' = r.self.context
            /\ keys' = r.self.keys
            /\ files' = r.self.files
            /\ outContent' = r.self.content
            /\ checkOutcome' = c.outcome
            /\ cbKeys' = c.cbKeys
            /\ runOutcome' = r.outcome
            /\ runCallback' = r.callback
            /\ runReturned' = r.returned
            /\ trace' = IF r.outcome = "threw"
                        THEN <<"check", "run", "throw">>
                        ELSE <<"check", "run", "done">>
            /\ checkCalls' = c.calls
            /\ UNCHANGED << baseKind, fs, readable, order, outMode,
                            options, call >>

\* compiler.hooks.run
RunHook == checkThenRun

\* compiler.hooks.watchRun
WatchRunHook == checkThenRun

\* ------------------------------------------------------- file system
\* A step of the file system: no handler runs, nothing is observed.
Quiet ==
  /\ checkOutcome' = "none"
  /\ cbKeys' = <<>>
  /\ runOutcome' = "none"
  /\ runCallback' = 0
  /\ runReturned' = "none"
  /\ trace' = <<>>
  /\ checkCalls' = NoCalls
  /\ UNCHANGED << options, call >>
  /\ UNCHANGED atomicVars

Entries == {p \in Paths : fs[p] # "none"}

\* An entry named index.tsx is created, a file or a directory, with the
\* directories above it.
CreateEntry ==
  \E p \in Paths :
  \E k \in KindsAt(p) :
    /\ baseKind = "dir"
    /\ fs[p] = "none"
    /\ Cardinality(Entries) < MaxEntries
    /\ fs' = [fs EXCEPT ![p] = k]
    /\ UNCHANGED << baseKind, readable, order, outMode, outContent >>
    /\ Quiet

\* An entry is removed (with its directory, once that is empty).
RemoveEntry ==
  \E p \in Entries :
    /\ fs' = [fs EXCEPT ![p] = "none"]
    /\ UNCHANGED << baseKind, readable, order, outMode, outContent >>
    /\ Quiet

\* The base directory is removed with all in it, the output file too.
RemoveBase ==
  /\ baseKind # "none"
  /\ baseKind' = "none"
  /\ fs' = [q \in Paths |-> "none"]
  /\ readable' = TRUE
  /\ outMode' = "none"
  /\ outContent' = <<>>
  /\ UNCHANGED order
  /\ Quiet

\* The base path is created, as a directory or (by mistake) as a file.
CreateBase ==
  \E k \in {"file", "dir"} :
    /\ baseKind = "none"
    /\ baseKind' = k
    /\ UNCHANGED << fs, readable, order, outMode, outContent >>
    /\ Quiet

\* The base directory's read permission is taken away or given back.
ChmodBase ==
  /\ baseKind = "dir"
  /\ readable' = ~readable
  /\ UNCHANGED << baseKind, fs, order, outMode, outContent >>
  /\ Quiet

\* The output file is created by hand.
CreateOutput ==
  /\ baseKind = "dir"
  /\ outMode = "none"
  /\ outMode' = "rw"
  /\ outContent' = ForeignContent
  /\ UNCHANGED << baseKind, fs, readable, order >>
  /\ Quiet

RemoveOutput ==
  /\ outMode # "none"
  /\ outMode' = "none"
  /\ outContent' = <<>>
  /\ UNCHANGED << baseKind, fs, readable, order >>
  /\ Quiet

\* The output file's write permission is taken away or given back.
ChmodOutput ==
  /\ outMode # "none"
  /\ outMode' = IF outMode = "rw" THEN "ro" ELSE "rw"
  /\ UNCHANGED << baseKind, fs, readable, order, outContent >>
  /\ Quiet

\* The file system comes to list its directories in the other order.
Reorder ==
  /\ order' = IF order = "asc" THEN "desc" ELSE "asc"
  /\ UNCHANGED << baseKind, fs, readable, outMode, outContent >>
  /\ Quiet

\* ------------------------------------------------------ specification
\* After new Atomic(options): no keys, no files, no context yet; the base
\* directory and a hand-written output file exist.
Constructed ==
  /\ baseKind = "dir"
  /\ fs = [p \in Paths |-> "none"]
  /\ readable = TRUE
  /\ order = "asc"
  /\ outMode = "rw"
  /\ outContent = ForeignContent
  /\ context = undefined
  /\ keys = <<>>
  /\ files = <<>>
  /\ checkOutcome = "none"
  /\ cbKeys = <<>>
  /\ runOutcome = "none"
  /\ runCallback = 0
  /\ runReturned = "none"
  /\ trace = <<>>
  /\ checkCalls = NoCalls

\* new Atomic(options) with the plugin's options, none of them recursive.
Init ==
  /\ options = [recursive |-> "omitted"]
  /\ call = NoCall
  /\ Constructed

Next ==
  \/ EnvironmentHook
  \/ RunHook
  \/ WatchRunHook
  \/ CreateEntry
  \/ RemoveEntry
  \/ RemoveBase
  \/ CreateBase
  \/ ChmodBase
  \/ CreateOutput
  \/ RemoveOutput
  \/ ChmodOutput
  \/ Reorder

Spec == Init /\ [][Next]_vars

\* new AtomicWebpackPlugin(options) with options that say nothing about
\* recursive, or recursive: true, or recursive: false.  The schema lets
\* any further property pass.
InitConfigured ==
  /\ options \in [recursive : {"omitted", "true", "false"}]
  /\ call = NoCall
  /\ Constructed

SpecConfigured == InitConfigured /\ [][Next]_vars

\* ------------------------------------------------ the scanner alone
\* The directories readDirectory is called on: the base directory and one
\* below it.
ScanRoots == {BasePath, BasePath \o <<"Card">>}

\* A file system the scan may find: at most MaxEntries entries named
\* index.tsx, with or without an output file, listed in either order.
\* The call of readDirectory is still to be made.
InitScanner ==
  /\ baseKind = "dir"
  /\ fs \in {f \in [Paths -> Kinds] :
               /\ \A p \in Paths : f[p] \in KindsAt(p) \cup {"none"}
               /\ Cardinality({p \in Paths : f[p] # "none"}) <= MaxEntries}
  /\ readable \in BOOLEAN
  /\ order \in {"asc", "desc"}
  /\ outMode \in {"none", "rw"}
  /\ outContent = IF outMode = "none" THEN <<>> ELSE ForeignContent
  /\ context = compilerContext
  /\ keys = <<>>
  /\ files = <<>>
  /\ checkOutcome = "none"
  /\ cbKeys = <<>>
  /\ runOutcome = "none"
  /\ runCallback = 0
  /\ runReturned = "none"
  /\ trace = <<>>
  /\ checkCalls = NoCalls
  /\ options = [recursive |-> "omitted"]
  /\ call \in {[fn |-> "readDirectory", args |-> <<d, b>>,
                 returned |-> FALSE, out |-> <<>>] :
                d \in ScanRoots, b \in BOOLEAN}

\* this.files = {}; this.readDirectory(directory, scanSubDirectories,
\* regularExpression)
ReadDirectoryCall ==
  /\ call.fn = "readDirectory"
  /\ ~call.returned
  /\ \E r \in {readDirectory(call.args[1], call.args[2], <<>>)} :
       /\ call' = [call EXCEPT !.returned = TRUE, !.out = r]
       /\ files' = r.files
  /\ UNCHANGED << baseKind, fs, readable, order, outMode, outContent,
                  context, keys, checkOutcome, cbKeys, runOutcome,
                  runCallback, runReturned, trace, options, checkCalls >>

NextScanner == ReadDirectoryCall

SpecScanner == InitScanner /\ [][NextScanner]_vars

\* ---------------------------------------------------- cleanKeys alone
\* Names of directories below the base directory; one is named index.tsx.
DirNames == {"Button", "Card", "index.tsx"}

\* Names of files a configured regularExpression may match.
FileNames == {"index.tsx", "Button.tsx", "Card.jsx"}

\* The sequences over S of length at most n.
SeqUpTo(S, n) == UNION {[1..k -> S] : k \in 0..n}

\* Full paths of files below the base directory.
KeyInputs ==
  {BasePath \o d \o <<f>> : d \in SeqUpTo(DirNames, MaxDepth - 1),
                            f \in FileNames}

\* Atomic.cleanKeys is about to be called with one key.
InitCleanKeys ==
  /\ options = [recursive |-> "omitted"]
  /\ call \in {[fn |-> "cleanKeys", args |-> << <<k>> >>,
                 returned |-> FALSE, out |-> <<>>] : k \in KeyInputs}
  /\ Constructed

\* Atomic.cleanKeys(keys)
CleanKeysCall ==
  /\ call.fn = "cleanKeys"
  /\ ~call.returned
  /\ call' = [call EXCEPT !.returned = TRUE, !.out = cleanKeys(call.args[1])]
  /\ UNCHANGED << baseKind, fs, readable, order, outMode, outContent,
                  context, keys, files, checkOutcome, cbKeys, runOutcome,
                  runCallback, runReturned, trace, options, checkCalls >>

NextCleanKeys == CleanKeysCall

SpecCleanKeys == InitCleanKeys /\ [][NextCleanKeys]_vars

\* -------------------------------------------- equalsIgnoreOrder alone
\* Lists of paths, with repetitions, as equalsIgnoreOrder may be given.
ListInputs == SeqUpTo(Paths, MaxLen)

\* equalsIgnoreOrder is about to be called with two lists.
InitEquals ==
  /\ options = [recursive |-> "omitted"]
  /\ call \in {[fn |-> "equalsIgnoreOrder", args |-> <<a, b>>,
                 returned |-> FALSE, out |-> <<>>] :
                a \in ListInputs, b \in ListInputs}
  /\ Constructed

\* equalsIgnoreOrder(a, b)
EqualsCall ==
  /\ call.fn = "equalsIgnoreOrder"
  /\ ~call.returned
  /\ call' = [call EXCEPT !.returned = TRUE,
                          !.out = equalsIgnoreOrder(call.args[1], call.args[2])]
  /\ UNCHANGED << baseKind, fs, readable, order, outMode, outContent,
                  context, keys, files, checkOutcome, cbKeys, runOutcome,
                  runCallback, runReturned, trace, options, checkCalls >>

NextEquals == EqualsCall

SpecEquals == InitEquals /\ [][NextEquals]_vars

\* ------------------------------------------------------------- claims
\* The files that match the pattern below the base directory now.
MatchSet ==
  IF baseKind = "dir"
  THEN {p \in Paths : fs[p] = "file" /\ regularExpressionTest(p)}
  ELSE {}

\* The step is a call of the build-start or watch-rebuild handler.
CheckCalled == "check" \in Range(trace')

\* The step calls Atomic.run.
RunCalled == "run" \in Range(trace')

\* C1: whenever the files that match the pattern below the base directory
\* differ from the stored keys at a call of check, check reports
\* changed = true.
C1_ReportsEveryDifference ==
  [][(CheckCalled /\ MatchSet # Range(keys)) => checkOutcome' = "changed"]_vars

\* C2: whenever the stored keys are exactly the files that match the pattern
\* below the base directory at a call of check, check reports
\* changed = false.
C2_ReportsNoChange ==
  [][(CheckCalled /\ MatchSet = Range(keys)) => checkOutcome' = "unchanged"]_vars

\* C3: check hands the stored keys to its callback and changes neither the
\* keys nor the output file: a handler in which run is not called leaves
\* both as they were, and the keys change only in a handler that calls run.
C3_CheckChangesNothing ==
  [][/\ CheckCalled =>
          /\ checkOutcome' # "threw" => cbKeys' = keys
          /\ ~RunCalled => /\ keys' = keys
                           /\ outContent' = outContent
                           /\ outMode' = outMode
     /\ keys' # keys => RunCalled]_vars

\* C3's case: check has reported a change and handed over the stale keys,
\* which run has since replaced.
C3_Witness ==
  /\ checkOutcome = "changed"
  /\ cbKeys # <<>>
  /\ cbKeys # keys

\* C4: in the build-start and watch-rebuild handlers run is called exactly
\* when check reported changed = true, and the host's callback is called
\* exactly once, after check and run.
C4_DoneExactlyOnce ==
  "check" \in Range(trace) =>
    /\ trace = (IF checkOutcome = "changed" THEN <<"check", "run", "done">>
                ELSE <<"check", "done">>)
    /\ checkOutcome \in {"changed", "unchanged"}

\* C5: no exception of the file system leaves a handler: in every state of
\* the file system each handler returns normally.
C5_NoExceptionEscapes == "throw" \notin Range(trace)

\* C6: a run called while the base directory or the output path is
\* inaccessible aborts before it scans: it returns the empty result, does
\* not call its completion callback and leaves the keys and the output file
\* (and, called from the environment hook, this.files) as they were.
C6_AbortsBeforeScanning ==
  [][(RunCalled /\ (~accessSync(BasePath) \/ ~accessSync(OutputPath))) =>
       /\ runReturned' = "empty"
       /\ runCallback' = 0
       /\ keys' = keys
       /\ outContent' = outContent
       /\ outMode' = outMode
       /\ Head(trace') = "run" => files' = files]_vars

\* C6's case: run was called with the output file missing while the files
\* below the base directory differ from the keys, and returned empty.
C6_Witness ==
  /\ "run" \in Range(trace)
  /\ runReturned = "empty"
  /\ baseKind = "dir"
  /\ ~accessSync(OutputPath)
  /\ keys # <<>>
  /\ MatchSet # Range(keys)

\* C7: a run whose write of the output file fails (the scan succeeded, the
\* file is not writable) returns the empty result and does not call its
\* completion callback; the keys are the fresh scan's and the output file
\* keeps its text.
C7_WriteFailureKeepsNewKeys ==
  [][(RunCalled /\ baseKind = "dir" /\ readable /\ outMode = "ro") =>
       /\ runReturned' = "empty"
       /\ runCallback' = 0
       /\ Range(keys') = MatchSet
       /\ Len(keys') = Cardinality(MatchSet)
       /\ outContent' = outContent]_vars

\* C7's case: the write has failed in a handler whose check handed over
\* other keys than the ones now stored, and the output file lists neither.
C7_Witness ==
  /\ trace = <<"check", "run", "done">>
  /\ runReturned = "empty"
  /\ baseKind = "dir" /\ readable /\ outMode = "ro"
  /\ keys # <<>>
  /\ cbKeys # keys
  /\ outContent # contentOf(keys)
  /\ outContent # contentOf(cbKeys)

\* C8: after a run that failed (it returned the empty result: the base or
\* output path was inaccessible, or the write failed), the next build-start
\* or watch-rebuild handler, when its check reports, calls run again.
C8_FailedRunIsRetried ==
  [][(runReturned = "empty" /\ CheckCalled /\ checkOutcome' # "threw")
       => RunCalled]_vars

\* C9: of two successive successful runs with no step of the file system
\* between them, the second leaves the output file's text and the keys as
\* the first left them.
C9_RunIsIdempotent ==
  [][(runReturned = "keys" /\ RunCalled /\ runReturned' = "keys") =>
       /\ outContent' = outContent
       /\ keys' = keys]_vars

\* C9's case: a successful run over two components, which the environment
\* hook repeats.
C9_Witness ==
  /\ trace = <<"run">>
  /\ runReturned = "keys"
  /\ Len(keys) = 2

\* C10: after a successful run the output file is the header followed by
\* one export line per key, in the order of the keys, and nothing else.
C10_OutputIsHeaderAndLines ==
  runReturned = "keys" =>
    /\ Len(outContent) = 1 + Len(keys)
    /\ outContent[1] = defaultOptions.header
    /\ \A i \in 1..Len(keys) :
         outContent[i + 1] =
           <<"export { default as ">> \o cleanKeys(keys)[i].componentName
             \o <<" } from '">> \o cleanKeys(keys)[i].from \o <<"'\n">>

\* C10's case: a successful run has written the lines of two components.
C10_Witness ==
  /\ runReturned = "keys"
  /\ Len(keys) = 2
  /\ Len(outContent) = 3

\* The files below a directory that match the pattern: all of them, or
\* only those directly in it.
FilesUnder(directory, recursive) ==
  {p \in Paths : /\ fs[p] = "file"
                 /\ p[Len(p)] = "index.tsx"
                 /\ IsPrefix(directory, p)
                 /\ Len(p) > Len(directory)
                 /\ recursive \/ Len(p) = Len(directory) + 1}

\* C11: a scan that returns has collected exactly the files below the
\* directory whose path matches the pattern, each once: no directory, even
\* one named index.tsx, and no other file; with the flag true the files
\* at every depth, with the flag false only those directly in the
\* directory.
C11_ScanCollectsExactlyMatches ==
  (call.fn = "readDirectory" /\ call.returned /\ ~call.out.threw) =>
    /\ Range(call.out.files) = FilesUnder(call.args[1], call.args[2])
    /\ Len(call.out.files) = Cardinality(Range(call.out.files))
    /\ files = call.out.files

\* A scan of the base directory that does not descend has left out a
\* matching file of a subdirectory and kept the one of the directory.
C11_Witness ==
  /\ call.fn = "readDirectory" /\ call.returned /\ ~call.out.threw
  /\ call.args = <<BasePath, FALSE>>
  /\ Len(call.out.files) = 1
  /\ Cardinality(FilesUnder(BasePath, TRUE)) = 2

\* C12: the scans follow the configuration's recursive flag: constructed
\* with recursive false, a run that succeeds stores only the matching
\* files directly in the base directory and a check's rescan finds only
\* those; with recursive omitted (or true) they take the matching files
\* at every depth.
C12_ScansFollowRecursiveOption ==
  LET expected == FilesUnder(BasePath, options.recursive # "false")
  IN  /\ runReturned = "keys" => Range(keys) = expected
      /\ (checkCalls.rescanned /\ checkOutcome # "threw") =>
           Range(files) = expected

\* C13: for every full path of a file, whatever the file is named,
\* cleanKeys gives as componentName the name of the directory the file is
\* in, and as from "./" with the last two segments before the file's name.
C13_DerivedFromAnyFileName ==
  (call.fn = "cleanKeys" /\ call.returned) =>
    LET key == call.args[1][1]
        n   == Len(key)
    IN  /\ call.out[1].key = key
        /\ call.out[1].componentName = <<key[n - 1]>>
        /\ call.out[1].from = <<".", key[n - 2], key[n - 1]>>

\* b is a rearrangement of a: the same elements, each as many times.
IsPermutation(a, b) ==
  /\ Len(a) = Len(b)
  /\ \E f \in [1..Len(a) -> 1..Len(a)] :
       /\ \A i, j \in 1..Len(a) : f[i] = f[j] => i = j
       /\ \A i \in 1..Len(a) : a[i] = b[f[i]]

\* C14: equalsIgnoreOrder(a, b) is true exactly when a and b hold the same
\* elements with the same multiplicities, in whatever order; so keys found
\* again in another order compare equal.
C14_EqualsIsMultisetEquality ==
  (call.fn = "equalsIgnoreOrder" /\ call.returned) =>
    (call.out <=> IsPermutation(call.args[1], call.args[2]))

\* Two different lists that hold one path twice and another once compared
\* equal.
C14_Witness ==
  /\ call.fn = "equalsIgnoreOrder" /\ call.returned
  /\ call.out = TRUE
  /\ call.args[1] # call.args[2]
  /\ Len(call.args[1]) = 3
  /\ Cardinality(Range(call.args[1])) = 2

\* C15: a check passes every stored key to accessSync, in order, also
\* after one was found missing; it lists the base directory exactly when
\* every stored key exists, and when it does not list it reports a change.
C15_RescanOnlyWhenAllKeysExist ==
  [][CheckCalled =>
       /\ checkCalls'.tested = keys
       /\ checkCalls'.rescanned <=> (\A k \in Range(keys) : accessSync(k))
       /\ ~checkCalls'.rescanned => checkOutcome' = "changed"]_vars

\* A check tested two keys though the first was missing, and did not list
\* the base directory.
C15_Witness ==
  /\ "check" \in Range(trace)
  /\ Len(checkCalls.tested) = 2
  /\ ~accessSync(checkCalls.tested[1])
  /\ ~checkCalls.rescanned
  /\ checkOutcome = "changed"

\* C16: the completion callback of run is invoked exactly when run returns
\* its keys, once; and then the stored keys are the files matching the
\* pattern below the base directory, each once, and the output file holds
\* the header followed by the export lines of those keys, in their order.
C16_SuccessMeansKeysAndOutputCurrent ==
  /\ runCallback \in {0, 1}
  /\ runCallback = 1 <=> runReturned = "keys"
  /\ runCallback = 1 =>
       /\ Range(keys) = MatchSet
       /\ Len(keys) = Cardinality(MatchSet)
       /\ outMode = "rw"
       /\ outContent = <<defaultOptions.header>>
                          \o [i \in 1..Len(keys) |->
                                exportLine(cleanKeys(keys)[i])]

\* A run started by a check that found changes succeeded with one key
\* where two were stored before.
C16_Witness ==
  /\ trace = <<"check", "run", "done">>
  /\ runCallback = 1
  /\ Len(cbKeys) = 2
  /\ Len(keys) = 1
  /\ Len(outContent) = 2

\* C17: the stored keys, and the paths of the last scan, never hold a path
\* twice; so comparing the keys with what a rescan of the base directory
\* would find now, equalsIgnoreOrder says the same as equality of the two
\* sets of paths.
C17_KeysAreASet ==
  /\ Len(keys) = Cardinality(Range(keys))
  /\ Len(files) = Cardinality(Range(files))
  /\ LET scan == readDirectory(resolvedBase(Self), scanSubDirectories, <<>>)
     IN  ~scan.threw =>
           /\ Len(scan.files) = Cardinality(Range(scan.files))
           /\ equalsIgnoreOrder(scan.files, keys)
                <=> Range(scan.files) = Range(keys)

\* A check found the two stored keys again in the other order and reported
\* no change.
C17_Witness ==
  /\ checkOutcome = "unchanged"
  /\ Len(keys) = 2
  /\ files # keys
  /\ Range(files) = Range(keys)

\* The name an export line exports: what stands between
\* "export { default as " and " } from '".
ExportedName(line) ==
  LET at == CHOOSE i \in 1..Len(line) : line[i] = " } from '"
  IN  SubSeq(line, 2, at - 1)

\* C18: in the output file a successful run has written, no two export
\* lines export the same name.
C18_ExportedNamesDistinct ==
  runReturned = "keys" =>
    \A i, j \in 2..Len(outContent) :
      i # j => ExportedName(outContent[i]) # ExportedName(outContent[j])

====
